---- MODULE Spec2Model ----
(***************************************************************************)
(* A model of the 4cecoder/saas backend: the User credential lifecycle     *)
(* (models/models.go hooks, main.go createDefaultAdmin), the random token  *)
(* generator, the Subscription creation hook and the JWT request gate      *)
(* (auth/auth.go).                                                         *)
(*                                                                         *)
(* Go strings are modelled as sequences: a password is a sequence of byte  *)
(* values, a generated token a sequence of one-character strings.  The     *)
(* PasswordHash column holds a Go string that is either plain text or the  *)
(* output of bcrypt; both are records [t, salt, b] so that they compare.   *)
(***************************************************************************)
EXTENDS Integers, Sequences, FiniteSets, TLC

\* ---------------------------------------------------------------- bounds
\* number of distinct bcrypt salts the random source may yield
MaxSalt == 2
\* number of distinct outcomes of one crypto/rand read of the token bytes
MaxSeed == 1

\* ------------------------------------------------------ program constants
\* bcrypt reads at most 72 bytes of key; GenerateFromPassword refuses more
BcryptMaxLen == 72
\* generateRandomString(32): raw bytes of a verification code / API key
TokenBytes == 32

\* longest Authorization header, in atoms (words, spaces, the token)
MaxHeaderLen == 4
\* latest reading of the clock
MaxTime == 3

\* http.StatusUnauthorized
StatusUnauthorized == 401

VARIABLES
    running,   \* main(): TRUE once createDefaultAdmin ran and r.Run serves
    users,     \* the users table: a sequence of rows, ID = position
    apikeys,   \* the api_keys table: the set of stored Key columns
    last,      \* the last database call on a User: its inputs and outcome
    pc,        \* where the request in flight is: idle, gate, handler, done
    request,   \* its Authorization header, the token in it, and its gate
    status,    \* the status written to the response (0: none yet)
    aborted,   \* c.Abort() was called
    handled,   \* the guarded handler ran
    now,       \* time.Now()
    sub        \* the last Subscription created: as submitted, as stored

userVars == <<running, users, apikeys, last>>
gateVars == <<pc, request, status, aborted, handled>>
subVars == <<now, sub>>
vars == <<running, users, apikeys, last, pc, request, status, aborted,
          handled, now, sub>>

\* ------------------------------------------------------------ Go strings
Text(bytes) == [t |-> "text", salt |-> 0, b |-> bytes]
EmptyString == Text(<<>>)

Rep(c, n) == [i \in 1..n |-> c]

\* The plaintexts callers submit: the empty one, a short one, one holding
\* a NUL byte, one of bcrypt's key length and one a byte longer.
Passwords ==
    { <<>>, <<1>>, <<1, 0, 1>>,
      Rep(1, BcryptMaxLen), Rep(1, BcryptMaxLen + 1) }

\* "password", the literal of createDefaultAdmin
PasswordLiteral == <<112, 97, 115, 115, 119, 111, 114, 100>>

\* the e-mail addresses submitted to POST /users
Emails == {"bob"}

\* ---------------------------------------------------------------- bcrypt
\* expensiveBlowfishSetup: the key is the password followed by a NUL byte,
\* and Blowfish's key expansion reads 18 words (72 bytes) of it cyclically.
KeyStream(password) ==
    LET ckey == Append(password, 0)
    IN  [i \in 1..BcryptMaxLen |-> ckey[((i - 1) % Len(ckey)) + 1]]

\* bcrypt.GenerateFromPassword(password, DefaultCost) with the salt drawn
\* from the random source (salt = 0: reading the salt failed).
GenerateFromPassword(password, salt) ==
    IF Len(password) > BcryptMaxLen
    THEN [err |-> "ErrPasswordTooLong", hash |-> EmptyString]
    ELSE IF salt = 0
    THEN [err |-> "ErrRand", hash |-> EmptyString]
    ELSE [err |-> "nil",
          hash |-> [t |-> "bcrypt", salt |-> salt, b |-> KeyStream(password)]]

\* GenerateFromPassword on each plaintext and salt of the model
Bcrypt ==
    [password \in Passwords |->
        [salt \in 0..MaxSalt |-> GenerateFromPassword(password, salt)]]

\* bcrypt.CompareHashAndPassword(hash, password) = nil
CompareHashAndPassword(hash, password) ==
    /\ hash.t = "bcrypt"
    /\ hash.b = KeyStream(password)

\* ------------------------------------------------- generateRandomString
Alphabet ==
    << "A", "B", "C", "D", "E", "F", "G", "H", "I", "J", "K", "L", "M",
       "N", "O", "P", "Q", "R", "S", "T", "U", "V", "W", "X", "Y", "Z",
       "a", "b", "c", "d", "e", "f", "g", "h", "i", "j", "k", "l", "m",
       "n", "o", "p", "q", "r", "s", "t", "u", "v", "w", "x", "y", "z",
       "0", "1", "2", "3", "4", "5", "6", "7", "8", "9", "-", "_" >>

Enc(i) == Alphabet[i + 1]

\* the bytes one successful rand.Read yields: one pattern per seed
RandBytes(length, seed) ==
    [i \in 1..length |-> (seed * 89 + i * 37 + (i * i) * seed) % 256]

RECURSIVE RawEncodeToString(_)
\* base64.RawURLEncoding: no padding
RawEncodeToString(bytes) ==
    IF Len(bytes) = 0 THEN <<>>
    ELSE IF Len(bytes) = 1
    THEN << Enc(bytes[1] \div 4), Enc((bytes[1] % 4) * 16) >>
    ELSE IF Len(bytes) = 2
    THEN << Enc(bytes[1] \div 4),
            Enc((bytes[1] % 4) * 16 + bytes[2] \div 16),
            Enc((bytes[2] % 16) * 4) >>
    ELSE << Enc(bytes[1] \div 4),
            Enc((bytes[1] % 4) * 16 + bytes[2] \div 16),
            Enc((bytes[2] % 16) * 4 + bytes[3] \div 64),
            Enc(bytes[3] % 64) >>
         \o RawEncodeToString(SubSeq(bytes, 4, Len(bytes)))

\* base64.URLEncoding.EncodeToString: as above, padded with "=" to a
\* multiple of four characters
EncodeToString(bytes) ==
    LET raw == RawEncodeToString(bytes)
    IN  raw \o Rep("=", (4 - (Len(raw) % 4)) % 4)

generateRandomStringRaw(length, seed) ==
    RawEncodeToString(RandBytes(length, seed))

generateRandomString(length, seed) ==
    EncodeToString(RandBytes(length, seed))

\* generateRandomString(32), once per outcome of the random source
RandomString32 ==
    [seed \in 1..MaxSeed |-> generateRandomString(TokenBytes, seed)]

\* ------------------------------------------------------------------ User
\* the columns of models.User the hooks read or write
NewUser(email, password, hash, verified) ==
    [ ID |-> 0, Email |-> email, Password |-> password,
      PasswordHash |-> hash, VerificationCode |-> <<>>,
      Verified |-> verified ]

\* hashPassword without its `u.Password = ""`
hashPasswordKeepsPlaintext(u, salt) ==
    IF u.Password # <<>>
    THEN LET g == Bcrypt[u.Password][salt]
         IN  IF g.err # "nil"
             THEN [u |-> u, err |-> g.err]
             ELSE [u |-> [u EXCEPT !.PasswordHash = g.hash], err |-> "nil"]
    ELSE [u |-> u, err |-> "nil"]

\* func (u *User) hashPassword() error
hashPassword(u, salt) ==
    IF u.Password # <<>>
    THEN LET g == Bcrypt[u.Password][salt]
         IN  IF g.err # "nil"
             THEN [u |-> u, err |-> g.err]
             ELSE [u |-> [u EXCEPT !.PasswordHash = g.hash,
                                   !.Password = <<>>],
                   err |-> "nil"]
    ELSE [u |-> u, err |-> "nil"]

\* BeforeCreate generating the verification code before it hashes
BeforeCreateCodeFirst(u, salt, seed) ==
    LET c == IF seed = 0 THEN u
             ELSE [u EXCEPT !.VerificationCode = RandomString32[seed]]
        h == hashPassword(c, salt)
    IN  IF seed = 0 THEN [u |-> u, err |-> "panic"] ELSE h

\* func (u *User) BeforeCreate(tx) error; seed = 0: rand.Read fails inside
\* generateRandomString, which panics.
BeforeCreate(u, salt, seed) ==
    LET h == hashPassword(u, salt)
    IN  IF h.err # "nil" THEN h
        ELSE IF seed = 0 THEN [u |-> h.u, err |-> "panic"]
        ELSE [u |-> [h.u EXCEPT !.VerificationCode = RandomString32[seed]],
              err |-> "nil"]

\* BeforeUpdate without its `if tx.Statement.Changed("Password")`
BeforeUpdateAlwaysHashes(u, changed, salt) == hashPassword(u, salt)

\* func (u *User) BeforeUpdate(tx) error; changed is the value of
\* tx.Statement.Changed("Password") for the statement being executed.
BeforeUpdate(u, changed, salt) ==
    IF changed THEN hashPassword(u, salt)
    ELSE [u |-> u, err |-> "nil"]

\* ------------------------------------------------------------------ gorm
\* The update values of a statement (Statement.Dest as a map): the columns
\* it assigns, and the value it assigns to Password.  "Name" stands for
\* the columns the hooks never look at.
Dests ==
    { [fields |-> {"Password"}, Password |-> p] : p \in Passwords }
    \cup { [fields |-> {"Name"}, Password |-> <<>>] }

NoDest == [fields |-> {}, Password |-> <<>>]

\* assigning the values of d to the struct or row u
Assign(u, d) ==
    [u EXCEPT !.Password = IF "Password" \in d.fields
                           THEN d.Password ELSE @]

\* db.Save(&u): Statement.Dest is Statement.Model, every column selected
FullDest(u) == [fields |-> {"Password", "Name"}, Password |-> u.Password]

\* tx.Statement.Changed(field): the statement assigns the column and the
\* value it assigns differs from the value the model (the hook's receiver)
\* holds.
Changed(model, dest, field) ==
    /\ field \in dest.fields
    /\ dest[field] # model[field]

\* db.Create(&u): the BeforeCreate hook, then the INSERT, which the unique
\* index on email may refuse.
Create(db, u, salt, seed) ==
    LET h == BeforeCreate(u, salt, seed)
    IN  IF h.err # "nil"
        THEN [db |-> db, u |-> h.u, err |-> h.err, changed |-> FALSE]
        ELSE IF \E i \in 1..Len(db) : db[i].Email = h.u.Email
        THEN [db |-> db, u |-> h.u, err |-> "duplicate", changed |-> FALSE]
        ELSE LET row == [h.u EXCEPT !.ID = Len(db) + 1]
             IN  [db |-> Append(db, row), u |-> row, err |-> "nil",
                  changed |-> FALSE]

\* db.Save(&u) of a loaded user the caller has edited in memory: the
\* BeforeUpdate hook on u, then an UPDATE of every column from u.
Save(db, id, u, salt) ==
    LET changed == Changed(u, FullDest(u), "Password")
        h == BeforeUpdate(u, changed, salt)
    IN  IF h.err # "nil"
        THEN [db |-> db, u |-> h.u, err |-> h.err, changed |-> changed]
        ELSE [db |-> [db EXCEPT ![id] = h.u], u |-> h.u, err |-> "nil",
              changed |-> changed]

\* db.Model(&u).Updates(dest): the BeforeUpdate hook on the model u, then
\* an UPDATE of the columns of dest only, whose values are then assigned
\* to u.
Updates(db, id, u, dest, salt) ==
    LET changed == Changed(u, dest, "Password")
        h == BeforeUpdate(u, changed, salt)
    IN  IF h.err # "nil"
        THEN [db |-> db, u |-> h.u, err |-> h.err, changed |-> changed]
        ELSE [db |-> [db EXCEPT ![id] = Assign(db[id], dest)],
              u |-> Assign(h.u, dest), err |-> "nil", changed |-> changed]

\* what `last` records of a database call: the struct handed to gorm (in),
\* the update values, the struct afterwards (out) and the outcome
Call(op, id, in, dest, r) ==
    [op |-> op, id |-> id, in |-> in, dest |-> dest, out |-> r.u,
     err |-> r.err, changed |-> r.changed]

NoUser == NewUser("", <<>>, EmptyString, FALSE)

NoCall ==
    [op |-> "none", id |-> 0, in |-> NoUser, dest |-> NoDest,
     out |-> NoUser, err |-> "nil", changed |-> FALSE]

\* ---------------------------------------------------------------- main
DefaultAdmin == NewUser("admin", <<>>, Text(PasswordLiteral), TRUE)

\* createDefaultAdmin(db), then r.Run: a failed Create is log.Fatalf, a
\* panic ends the process as well.
Startup ==
    /\ ~running
    /\ \E salt \in 0..MaxSalt, seed \in 0..MaxSeed :
        LET count == Cardinality({i \in 1..Len(users) :
                                     users[i].Email = "admin"})
            r == Create(users, DefaultAdmin, salt, seed)
        IN  IF count = 0
            THEN /\ users' = r.db
                 /\ last' = Call("startup", 0, DefaultAdmin, NoDest, r)
                 /\ running' = (r.err = "nil")
            ELSE /\ running' = TRUE
                 /\ UNCHANGED <<users, last>>
    /\ UNCHANGED apikeys
    /\ UNCHANGED <<gateVars, subVars>>

\* the process ends; what it held in memory is gone
Shutdown ==
    /\ running
    /\ running' = FALSE
    /\ last' = NoCall
    /\ UNCHANGED <<users, apikeys>>
    /\ UNCHANGED <<gateVars, subVars>>

\* POST /users: db.Create of the submitted user
CreateUser ==
    /\ running
    /\ \E email \in Emails, password \in Passwords, salt \in 0..MaxSalt,
          seed \in 0..MaxSeed :
        LET u == NewUser(email, password, EmptyString, FALSE)
            r == Create(users, u, salt, seed)
        IN  /\ users' = r.db
            /\ last' = Call("create", 0, u, NoDest, r)
    /\ UNCHANGED <<running, apikeys>>
    /\ UNCHANGED <<gateVars, subVars>>

\* PUT /users/:id by db.Save of the loaded, edited user
SaveUser ==
    /\ running
    /\ \E id \in 1..Len(users), edit \in Dests, salt \in 0..MaxSalt :
        LET u == Assign(users[id], edit)
            r == Save(users, id, u, salt)
        IN  /\ users' = r.db
            /\ last' = Call("save", id, u, FullDest(u), r)
    /\ UNCHANGED <<running, apikeys>>
    /\ UNCHANGED <<gateVars, subVars>>

\* PUT /users/:id by db.Model(&u).Updates(dest) on the loaded user u
UpdatesUser ==
    /\ running
    /\ \E id \in 1..Len(users), dest \in Dests, salt \in 0..MaxSalt :
        LET u == users[id]
            r == Updates(users, id, u, dest, salt)
        IN  /\ users' = r.db
            /\ last' = Call("updates", id, u, dest, r)
    /\ UNCHANGED <<running, apikeys>>
    /\ UNCHANGED <<gateVars, subVars>>

\* func (k *APIKey) BeforeCreate(tx) error
APIKeyBeforeCreate(k, seed) ==
    IF seed = 0 THEN [k |-> k, err |-> "panic"]
    ELSE [k |-> [k EXCEPT !.Key = RandomString32[seed]], err |-> "nil"]

\* db.Create of an APIKey: the hook, then the INSERT under the unique
\* index on key; a failed rand.Read panics and nothing is stored
CreateAPIKey ==
    /\ running
    /\ \E seed \in 0..MaxSeed :
        LET h == APIKeyBeforeCreate([Key |-> <<>>], seed)
        IN  apikeys' = IF h.err = "nil" THEN apikeys \cup {h.k.Key}
                       ELSE apikeys
    /\ UNCHANGED <<running, users, last>>
    /\ UNCHANGED <<gateVars, subVars>>

\* ---------------------------------------------------------- Subscription
SubscriptionStatusTrialing == "trialing"

Statuses == {"", "active", "inactive", "trialing", "canceled"}

\* a time.Time is a number, 0 the zero time; StartDate.IsZero()
IsZero(t) == t = 0

\* the Subscriptions callers submit: the columns the hook reads or writes,
\* and EndDate and PaymentMethod for those it must leave alone
Subscriptions ==
    [ Status : Statuses, StartDate : 0..MaxTime, EndDate : {0, MaxTime},
      PaymentMethod : {"", "card"} ]

\* Subscription.BeforeCreate defaulting StartDate only when Status was
\* defaulted too
SubscriptionBeforeCreateNested(s, clock) ==
    IF s.Status = ""
    THEN [s EXCEPT !.Status = SubscriptionStatusTrialing,
                   !.StartDate = IF IsZero(@) THEN clock ELSE @]
    ELSE s

\* func (s *Subscription) BeforeCreate(tx) error (always nil)
SubscriptionBeforeCreate(s, clock) ==
    [s EXCEPT !.Status = IF @ = "" THEN SubscriptionStatusTrialing ELSE @,
              !.StartDate = IF IsZero(@) THEN clock ELSE @]

NoSub == [Status |-> "", StartDate |-> 0, EndDate |-> 0,
          PaymentMethod |-> ""]

\* POST /subscriptions: db.Create of the submitted subscription
CreateSubscription ==
    /\ \E s \in Subscriptions :
        sub' = [in |-> s, out |-> SubscriptionBeforeCreate(s, now),
                at |-> now]
    /\ UNCHANGED now
    /\ UNCHANGED <<userVars, gateVars>>

\* time passes
Tick ==
    /\ now < MaxTime
    /\ now' = now + 1
    /\ UNCHANGED sub
    /\ UNCHANGED <<userVars, gateVars>>

\* ------------------------------------------------------------------ auth
\* A bearer token: the signing method of its header, the key its signature
\* verifies under, its role claim and its exp claim; or a string that is no
\* JWT at all.
RoleClaims ==
    { [kind |-> "string", s |-> r] : r \in {"admin", "user", "guest", ""} }
    \cup { [kind |-> "number", s |-> ""], [kind |-> "missing", s |-> ""] }

Tokens ==
    [ form : {"jwt"}, alg : {"HS256", "RS256", "none"},
      key : {"server", "other"}, role : RoleClaims,
      exp : {"none", "past"} ]

Garbage ==
    [form |-> "garbage", alg |-> "none", key |-> "other",
     role |-> [kind |-> "missing", s |-> ""], exp |-> "none"]

\* An Authorization header is a sequence of atoms: " " is one space, "T"
\* the request's token, the others are words without a space.
Atoms == {" ", "Bearer", "Basic", "T"}

RECURSIVE HeadersOfLen(_)
HeadersOfLen(n) ==
    IF n = 0 THEN { <<>> }
    ELSE { Append(h, a) : h \in HeadersOfLen(n - 1), a \in Atoms }

Headers == UNION { HeadersOfLen(n) : n \in 0..MaxHeaderLen }

UserRole == "user"
AdminRole == "admin"

\* the gates a route may be guarded by
Gates ==
    { [kind |-> "IsUserOrAdmin", requiredRole |-> ""] }
    \cup { [kind |-> "AuthMiddleware", requiredRole |-> r] :
             r \in {AdminRole, UserRole} }

\* the signing methods that are a *jwt.SigningMethodHMAC
HMACMethods == {"HS256", "HS384", "HS512"}

RECURSIVE Split(_)
\* strings.Split(header, " "): the segments between the spaces
Split(h) ==
    IF \A i \in 1..Len(h) : h[i] # " " THEN << h >>
    ELSE LET k == CHOOSE i \in 1..Len(h) :
                     h[i] = " " /\ \A j \in 1..(i - 1) : h[j] # " "
         IN  << SubSeq(h, 1, k - 1) >> \o Split(SubSeq(h, k + 1, Len(h)))

\* ExtractToken taking the last segment of any header
ExtractTokenLastSegment(h) == Split(h)[Len(Split(h))]

\* func ExtractToken(c *gin.Context) string
ExtractToken(h) ==
    IF Len(Split(h)) = 2 THEN Split(h)[2] ELSE <<>>

\* VerifyToken whose key function accepts every signing method and whose
\* signature is not checked
VerifyTokenUnverified(h, t) ==
    LET tokenString == ExtractToken(h)
    IN  IF tokenString # <<"T">> \/ t.form # "jwt"
        THEN [role |-> "", err |-> "malformed"]
        ELSE IF t.exp = "past"
        THEN [role |-> "", err |-> "expired"]
        ELSE IF t.role.kind # "string"
        THEN [role |-> "", err |-> "invalid role"]
        ELSE [role |-> t.role.s, err |-> "nil"]

\* func VerifyToken(c *gin.Context) (string, error): jwt.Parse of the
\* extracted string (its shape, the key function's signing-method check,
\* the claims' validity, the signature), then the role claim
VerifyToken(h, t) ==
    LET tokenString == ExtractToken(h)
    IN  IF tokenString # <<"T">> \/ t.form # "jwt"
        THEN [role |-> "", err |-> "malformed"]
        ELSE IF t.alg \notin HMACMethods
        THEN [role |-> "", err |-> "invalid signing method"]
        ELSE IF t.exp = "past"
        THEN [role |-> "", err |-> "expired"]
        ELSE IF t.key # "server"
        THEN [role |-> "", err |-> "signature is invalid"]
        ELSE IF t.role.kind # "string"
        THEN [role |-> "", err |-> "invalid role"]
        ELSE [role |-> t.role.s, err |-> "nil"]

\* IsUserOrAdmin letting every verified token through
IsUserOrAdminAnyRole(h, t) == VerifyToken(h, t).err = "nil"

\* func IsUserOrAdmin(c *gin.Context): TRUE when it reaches c.Next()
IsUserOrAdmin(h, t) ==
    LET v == VerifyToken(h, t)
    IN  ~(v.err # "nil" \/ (v.role # UserRole /\ v.role # AdminRole))

\* func AuthMiddleware(requiredRole string): TRUE when it reaches c.Next()
AuthMiddleware(requiredRole, h, t) ==
    LET v == VerifyToken(h, t)
    IN  ~(v.err # "nil" \/ v.role # requiredRole)

NoRequest ==
    [header |-> <<>>, token |-> Garbage,
     gate |-> [kind |-> "IsUserOrAdmin", requiredRole |-> ""]]

\* a request arrives at a guarded route
Receive ==
    /\ pc = "idle"
    /\ \E h \in Headers, t \in Tokens \cup {Garbage}, g \in Gates :
        request' = [header |-> h, token |-> t, gate |-> g]
    /\ pc' = "gate"
    /\ status' = 0
    /\ aborted' = FALSE
    /\ handled' = FALSE
    /\ UNCHANGED <<userVars, subVars>>

\* the route's gate is IsUserOrAdmin
RunIsUserOrAdmin ==
    /\ pc = "gate"
    /\ request.gate.kind = "IsUserOrAdmin"
    /\ IF IsUserOrAdmin(request.header, request.token)
       THEN /\ pc' = "handler"
            /\ UNCHANGED <<status, aborted>>
       ELSE /\ status' = StatusUnauthorized
            /\ aborted' = TRUE
            /\ pc' = "done"
    /\ UNCHANGED <<request, handled>>
    /\ UNCHANGED <<userVars, subVars>>

\* the route's gate is AuthMiddleware(requiredRole)
RunAuthMiddleware ==
    /\ pc = "gate"
    /\ request.gate.kind = "AuthMiddleware"
    /\ IF AuthMiddleware(request.gate.requiredRole, request.header,
                         request.token)
       THEN /\ pc' = "handler"
            /\ UNCHANGED <<status, aborted>>
       ELSE /\ status' = StatusUnauthorized
            /\ aborted' = TRUE
            /\ pc' = "done"
    /\ UNCHANGED <<request, handled>>
    /\ UNCHANGED <<userVars, subVars>>

\* c.Next(): the handler the gate guards
RunHandler ==
    /\ pc = "handler"
    /\ handled' = TRUE
    /\ pc' = "done"
    /\ UNCHANGED <<request, status, aborted>>
    /\ UNCHANGED <<userVars, subVars>>

\* the response is sent and the context goes back to the pool
Respond ==
    /\ pc = "done"
    /\ pc' = "idle"
    /\ request' = NoRequest
    /\ status' = 0
    /\ aborted' = FALSE
    /\ handled' = FALSE
    /\ UNCHANGED <<userVars, subVars>>

\* ------------------------------------------------------- specifications
Init ==
    /\ running = FALSE
    /\ users = <<>>
    /\ apikeys = {}
    /\ last = NoCall
    /\ pc = "idle"
    /\ request = NoRequest
    /\ status = 0
    /\ aborted = FALSE
    /\ handled = FALSE
    /\ now = 1
    /\ sub = [in |-> NoSub, out |-> NoSub, at |-> 0]

\* the users table under creations and updates
Next ==
    \/ Startup
    \/ Shutdown
    \/ CreateUser
    \/ SaveUser
    \/ UpdatesUser

Spec == Init /\ [][Next]_vars

\* the tables under creations only, API keys included
NextCreate ==
    \/ Startup
    \/ Shutdown
    \/ CreateUser
    \/ CreateAPIKey

SpecCreate == Init /\ [][NextCreate]_vars

\* requests through a guarded route
NextGate ==
    \/ Receive
    \/ RunIsUserOrAdmin
    \/ RunAuthMiddleware
    \/ RunHandler
    \/ Respond

SpecGate == Init /\ [][NextGate]_vars

\* subscriptions being created as time passes
NextSub ==
    \/ CreateSubscription
    \/ Tick

SpecSub == Init /\ [][NextSub]_vars

\* ================================================================ claims
HookErrors == {"ErrPasswordTooLong", "ErrRand"}

NulFree(password) == \A i \in 1..Len(password) : password[i] # 0

\* the User.BeforeCreate hook ran on a non-empty plaintext and returned nil
\* (the INSERT after it may still have met the unique index)
CreatedWithPassword ==
    /\ last.op = "create"
    /\ last.in.Password # <<>>
    /\ last.err \in {"nil", "duplicate"}

\* C1 as stated: after BeforeCreate returns nil for a non-empty plaintext p,
\* Password is empty and PasswordHash verifies against p and against no
\* other plaintext of Passwords.
C1_VerifiesOnlyOriginal ==
    CreatedWithPassword =>
        /\ last.out.Password = <<>>
        /\ \A q \in Passwords :
              CompareHashAndPassword(last.out.PasswordHash, q)
                  <=> (q = last.in.Password)

\* C1 amended: after BeforeCreate returns nil for a non-empty plaintext p,
\* Password is empty and PasswordHash is a bcrypt hash that verifies against
\* p; when p holds no NUL byte it verifies against no other plaintext of at
\* most 72 bytes that holds no NUL byte.
C1_VerifiesOriginal ==
    CreatedWithPassword =>
        /\ last.out.Password = <<>>
        /\ last.out.PasswordHash.t = "bcrypt"
        /\ CompareHashAndPassword(last.out.PasswordHash, last.in.Password)
        /\ \A q \in Passwords :
              (/\ NulFree(last.in.Password)
               /\ NulFree(q)
               /\ Len(q) <= BcryptMaxLen
               /\ CompareHashAndPassword(last.out.PasswordHash, q))
                  => (q = last.in.Password)

\* C1 witness: a user was created from the 72-byte plaintext and stored
C1_Witness ==
    /\ CreatedWithPassword
    /\ last.err = "nil"
    /\ last.in.Password = Rep(1, BcryptMaxLen)
    /\ users[last.out.ID] = last.out

IsUpdate == last.op \in {"save", "updates"}

\* C2: an update for which Changed("Password") is false ends without error
\* and leaves PasswordHash as it was, in the struct and in the stored row.
C2_HashPreserved ==
    (IsUpdate /\ ~last.changed) =>
        /\ last.err = "nil"
        /\ last.out.PasswordHash = last.in.PasswordHash
        /\ users[last.id].PasswordHash = last.in.PasswordHash

\* C2 witness: an update of other columns only, of a user holding a bcrypt
\* hash
C2_Witness ==
    /\ last.op = "updates"
    /\ ~last.changed
    /\ last.dest.fields = {"Name"}
    /\ last.in.PasswordHash.t = "bcrypt"

\* the update assigns a non-empty plaintext other than the one held
PasswordChanged ==
    /\ last.op = "updates"
    /\ last.changed
    /\ last.err = "nil"
    /\ last.dest.Password # <<>>

\* C3 as stated: when an update changes Password to p', afterwards
\* PasswordHash verifies against p' and Password is empty, in the struct and
\* in the stored row.
C3_RehashedOnChange ==
    PasswordChanged =>
        /\ CompareHashAndPassword(last.out.PasswordHash, last.dest.Password)
        /\ last.out.Password = <<>>
        /\ CompareHashAndPassword(users[last.id].PasswordHash,
                                  last.dest.Password)
        /\ users[last.id].Password = <<>>

\* ----------------------------------------------------------------- C8
Idx(c) == CHOOSE i \in 0..63 : Alphabet[i + 1] = c

IsAlphabet(s) == \A i \in 1..Len(s) : \E k \in 1..64 : Alphabet[k] = s[i]

RECURSIVE DecodeString(_)
\* base64.URLEncoding.DecodeString of a padded string
DecodeString(s) ==
    IF Len(s) < 4 THEN <<>>
    ELSE LET a == Idx(s[1])
             b == Idx(s[2])
         IN  IF s[3] = "=" THEN << a * 4 + b \div 16 >>
             ELSE IF s[4] = "="
             THEN << a * 4 + b \div 16,
                     (b % 16) * 16 + Idx(s[3]) \div 4 >>
             ELSE << a * 4 + b \div 16,
                     (b % 16) * 16 + Idx(s[3]) \div 4,
                     (Idx(s[3]) % 4) * 64 + Idx(s[4]) >>
                  \o DecodeString(SubSeq(s, 5, Len(s)))

\* the verification codes and API keys the hooks have issued
Issued ==
    {users[i].VerificationCode : i \in 1..Len(users)} \cup apikeys

C9_HashFailureAborts ==
    /\ [](last.err \in HookErrors =>
            /\ last.out = last.in
            /\ last.op = "create" => last.out.VerificationCode = <<>>)
    /\ [][last'.err \in HookErrors => users' = users]_vars

\* C9 witness: an update whose hook failed in hashing
C9_Witness ==
    /\ last.op = "updates"
    /\ last.err = "ErrPasswordTooLong"
    /\ last.in.Password = Rep(1, BcryptMaxLen + 1)

\* ---------------------------------------------------------------- C10
\* C10 as stated: every stored user has an empty Password, and a
\* PasswordHash that is empty or the output of the hashing function.
C10_OnlyHashesStored ==
    \A i \in 1..Len(users) :
        /\ users[i].Password = <<>>
        /\ users[i].PasswordHash = EmptyString
              \/ users[i].PasswordHash.t = "bcrypt"

\* ----------------------------------------------------------------- gate
GateActed == pc \in {"handler", "done"}

\* the gate reached c.Next()
Passed == pc = "handler" \/ (pc = "done" /\ ~aborted)

\* Authorization: Bearer <token>
ProperBearer == request.header = <<"Bearer", " ", "T">>

\* a JWT signed with the server's key by HMAC-SHA256
ServerSigned ==
    /\ request.token.form = "jwt"
    /\ request.token.alg = "HS256"
    /\ request.token.key = "server"

RoleIs(r) == request.token.role = [kind |-> "string", s |-> r]

AdminOnly == [kind |-> "AuthMiddleware", requiredRole |-> AdminRole]

TokenIsSecondOfTwo ==
    LET h == request.header
    IN  /\ Len(h) >= 2
        /\ h[Len(h)] = "T"
        /\ h[Len(h) - 1] = " "
        /\ \A i \in 1..(Len(h) - 2) : h[i] # " "

\* the token verifies and its role is the one the gate asks for
Authorized ==
    /\ TokenIsSecondOfTwo
    /\ ServerSigned
    /\ request.token.exp # "past"
    /\ request.token.role.kind = "string"
    /\ IF request.gate.kind = "IsUserOrAdmin"
       THEN request.token.role.s \in {UserRole, AdminRole}
       ELSE request.token.role.s = request.gate.requiredRole

\* C5: once a gate has run on a request whose token is missing, does not
\* verify (signature, signing method, expiry), has no string role claim or
\* has another role, the response is 401, the context is aborted and the
\* handler has not run; the handler only ever runs from a gate that passed
\* a verified token with a matching role.
C5_RejectHalts ==
    /\ [](/\ handled => Authorized
          /\ (GateActed /\ ~Authorized) =>
                /\ pc = "done"
                /\ aborted
                /\ status = StatusUnauthorized
                /\ ~handled)
    /\ [][(handled' /\ ~handled) =>
            (pc = "handler" /\ ~aborted /\ Authorized)]_vars

\* C5 witness: a well-formed admin token with signing method "none" was
\* answered 401 without the handler running
C5_Witness ==
    /\ pc = "done"
    /\ aborted
    /\ status = StatusUnauthorized
    /\ ~handled
    /\ ProperBearer
    /\ request.token.alg = "none"
    /\ RoleIs(AdminRole)

\* Bearer, one space, and a token without a space
BearerForm(h) ==
    /\ Len(h) >= 2
    /\ h[1] = "Bearer"
    /\ h[2] = " "
    /\ \A i \in 3..Len(h) : h[i] # " "

Spaces(h) == Cardinality({i \in 1..Len(h) : h[i] = " "})

\* C6 as stated: for every header not of the form Bearer <token>,
\* ExtractToken returns "" and VerifyToken returns an error.
C6_NonBearerYieldsEmpty ==
    (pc # "idle" /\ ~BearerForm(request.header)) =>
        /\ ExtractToken(request.header) = <<>>
        /\ VerifyToken(request.header, request.token).err # "nil"

\* C6 amended: for every header that is not exactly two space-delimited
\* segments (no space, or two or more), ExtractToken returns "" and
\* VerifyToken returns an error, so the gate rejects.
C6_NotTwoSegmentsYieldsEmpty ==
    (pc # "idle" /\ Spaces(request.header) # 1) =>
        /\ ExtractToken(request.header) = <<>>
        /\ VerifyToken(request.header, request.token).err # "nil"
        /\ pc # "handler"
        /\ pc = "done" => aborted

\* C6 witness: a valid admin token after "Bearer" and two spaces was
\* rejected
C6_Witness ==
    /\ pc = "done"
    /\ aborted
    /\ request.header = <<"Bearer", " ", " ", "T">>
    /\ ServerSigned
    /\ request.token.exp = "none"
    /\ RoleIs(AdminRole)

\* ----------------------------------------------------------------- C7
\* C7: a created Subscription has Status "trialing" if none was given and
\* StartDate the creation time if none was given; a given Status or
\* StartDate, and every other column, is as submitted.
C7_SubscriptionDefaults ==
    sub.at # 0 =>
        /\ sub.out.Status = IF sub.in.Status = ""
                            THEN "trialing" ELSE sub.in.Status
        /\ sub.out.StartDate = IF sub.in.StartDate = 0
                               THEN sub.at ELSE sub.in.StartDate
        /\ sub.out.EndDate = sub.in.EndDate
        /\ sub.out.PaymentMethod = sub.in.PaymentMethod
        /\ sub.at <= now

\* C7 witness: a Subscription created with neither Status nor StartDate,
\* after the clock has advanced
C7_Witness ==
    /\ sub.at > 1
    /\ sub.in.Status = ""
    /\ sub.in.StartDate = 0
    /\ sub.out.Status = "trialing"
    /\ sub.out.StartDate = sub.at

====
